---- MODULE Spec2Model ----
(***************************************************************************)
(* Model of the signal-processing functions of data_processing.c:          *)
(* calculateMovingAverage, butterworthLowPassFilter, detectMovement and    *)
(* applyZupt.                                                              *)
(*                                                                         *)
(* A state is one call: the caller's two buffers as the caller provided   *)
(* them, the arguments of the call, the buffers after the call, the        *)
(* returned value and the buffer indices the call read and wrote. Spec     *)
(* takes each call as one step; ScanSpec takes applyZupt's loop one         *)
(* iteration at a time, with the loop's locals in the state.               *)
(*                                                                         *)
(* A double is a binary floating-point number m * 2^e with a significand   *)
(* of SignificandBits bits, every operation rounded to nearest, ties to    *)
(* even, as IEEE 754 does with 53 bits. The exponent is unbounded:         *)
(* overflow, underflow, infinities and NaN are not modelled.               *)
(***************************************************************************)
EXTENDS Integers, Sequences, FiniteSets, TLC

\* ------------------------------------------------------------- bounds
\* Number of elements of each of the caller's buffers.
BufLen == 3

\* Width of a double's significand in the model (53 in the code).
SignificandBits == 5

\* Sample values the caller's input buffer is filled with.
Samples == {-1, 0, 3}

\* Values of int parameters: dataSize, and windowSize or
\* continuousCountThreshold (one past the buffer length, zero and negative).
DataSizes == -1 .. BufLen
RunLengths == -1 .. (BufLen + 1)

\* Values of the double parameters.
Thresholds == {-1, 0, 1, 2}
MovementRates == {-1, 0, 1, 2}
CutoffFrequencies == {-1, 0, 1, 6}
SamplingRates == {-1, 0, 1, 15}

\* ------------------------------------------------------------- double
NULL == "NULL"
Valid == "valid"

Abs(n) == IF n < 0 THEN -n ELSE n

Sgn(n) == IF n < 0 THEN -1 ELSE IF n > 0 THEN 1 ELSE 0

Min(a, b) == IF a < b THEN a ELSE b

Max(a, b) == IF a > b THEN a ELSE b

Pow2(n) == 2 ^ n

\* Number of bits of the natural number n.
RECURSIVE BitLen(_)
BitLen(n) == IF n = 0 THEN 0 ELSE 1 + BitLen(n \div 2)

\* The number m * 2^e in its one representation: m odd, or <<0, 0>>.
RECURSIVE Canon(_, _)
Canon(m, e) ==
    IF m = 0 THEN <<0, 0>>
    ELSE IF m % 2 = 0 THEN Canon(m \div 2, e + 1)
    ELSE <<m, e>>

\* m * 2^e rounded to SignificandBits bits, to nearest, ties to even.
RoundToDouble(m, e) ==
    LET a == Abs(m)
        s == BitLen(a) - SignificandBits
    IN  IF s <= 0 THEN Canon(m, e)
        ELSE LET q == a \div Pow2(s)
                 r == a % Pow2(s)
                 half == Pow2(s - 1)
                 up == r > half \/ (r = half /\ q % 2 = 1)
             IN  Canon(Sgn(m) * (IF up THEN q + 1 ELSE q), e + s)

\* An int converted to double.
FromInt(k) == RoundToDouble(k, 0)

Zero == <<0, 0>>

One == <<1, 0>>

\* The real number a + b, not rounded.
ExactAdd(a, b) ==
    LET e == Min(a[2], b[2])
    IN  IF a[1] = 0 THEN b
        ELSE IF b[1] = 0 THEN a
        ELSE Canon(a[1] * Pow2(a[2] - e) + b[1] * Pow2(b[2] - e), e)

Neg(a) == <<-a[1], a[2]>>

\* a + b of two doubles. An operand below a quarter of the other's last
\* place is absorbed.
FAdd(a, b) ==
    IF a[1] = 0 THEN b
    ELSE IF b[1] = 0 THEN a
    ELSE IF a[2] - b[2] > 2 * SignificandBits + 2 THEN a
    ELSE IF b[2] - a[2] > 2 * SignificandBits + 2 THEN b
    ELSE LET x == ExactAdd(a, b) IN RoundToDouble(x[1], x[2])

FSub(a, b) == FAdd(a, Neg(b))

FMul(a, b) == RoundToDouble(a[1] * b[1], a[2] + b[2])

\* a / b of two doubles, b not zero: the quotient of the significands to
\* 2 * SignificandBits + 2 more bits and a sticky bit, then rounded.
FDiv(a, b) ==
    LET k == 2 * SignificandBits + 2
        n == Abs(a[1]) * Pow2(k)
        d == Abs(b[1])
        q == n \div d
        sticky == IF n % d = 0 THEN 0 ELSE 1
    IN  RoundToDouble(Sgn(a[1]) * Sgn(b[1]) * (2 * q + sticky), a[2] - b[2] - k - 1)

\* fabs
FAbs(a) == <<Abs(a[1]), a[2]>>

\* a < b, exactly.
FLess(a, b) == ExactAdd(a, Neg(b))[1] < 0

\* ------------------------------------------------------------- state
VARIABLES
    pc,            \* "ready" before the call, "scanning" in applyZupt's loop,
                   \* "returned" after the call
    call,          \* the function called and its arguments
    callerInput,   \* inputData / accelData as the caller provided it
    callerOutput,  \* outputData / velocityData as the caller provided it
    inputData,     \* the const buffer (inputData, accelData)
    outputData,    \* the written buffer (outputData, velocityData)
    ret,           \* applyZupt's return value (0 for the void functions)
    rd,            \* indices the call read, in either buffer
    wr,            \* indices the call wrote
    scan           \* applyZupt's loop: its locals i and continuousCount

vars == <<pc, call, callerInput, callerOutput, inputData, outputData, ret, rd, wr, scan>>

Indices == 0 .. (BufLen - 1)

\* The caller's output buffer before the call: zeroed, or holding older
\* values, none of them 0.0 or 1.0.
StaleBuffers == {[i \in Indices |-> Zero], [i \in Indices |-> FromInt(i + 5)]}

InputBuffers == [Indices -> {FromInt(s) : s \in Samples}]

NoCall ==
    [fn |-> "none", inputPtr |-> NULL, outputPtr |-> NULL, dataSize |-> 0,
     windowSize |-> 0, continuousCountThreshold |-> 0, threshold |-> 0,
     cutoffFrequency |-> 0, samplingRate |-> 0]

\* What a call leaves: the output buffer, the return value, the indices
\* read and written.
Untouched(out, r) == [out |-> out, ret |-> r, rd |-> {}, wr |-> {}]

\* ------------------------------------------------------------- calculateMovingAverage
\* MovingAverageWindow taking one sample too many (count <= windowSize).
RECURSIVE MovingAverageWindowOneMore(_, _, _, _, _, _)
MovingAverageWindowOneMore(in, windowSize, j, count, sum, read) ==
    IF j >= 0 /\ count <= windowSize
    THEN MovingAverageWindowOneMore(in, windowSize, j - 1, count + 1, FAdd(sum, in[j]), read \cup {j})
    ELSE [sum |-> sum, count |-> count, rd |-> read]

\* MovingAverageWindow without the lower bound on j: it reads before the
\* buffer (as 0.0 here) whenever the window is longer than i + 1.
RECURSIVE MovingAverageWindowNoLowerBound(_, _, _, _, _, _)
MovingAverageWindowNoLowerBound(in, windowSize, j, count, sum, read) ==
    IF count < windowSize
    THEN MovingAverageWindowNoLowerBound(in, windowSize, j - 1, count + 1,
             FAdd(sum, IF j \in DOMAIN in THEN in[j] ELSE Zero), read \cup {j})
    ELSE [sum |-> sum, count |-> count, rd |-> read]

\* for (int j = i; j >= 0 && count < windowSize; --j, ++count) sum += inputData[j];
RECURSIVE MovingAverageWindow(_, _, _, _, _, _)
MovingAverageWindow(in, windowSize, j, count, sum, read) ==
    IF j >= 0 /\ count < windowSize
    THEN MovingAverageWindow(in, windowSize, j - 1, count + 1, FAdd(sum, in[j]), read \cup {j})
    ELSE [sum |-> sum, count |-> count, rd |-> read]

\* for (int i = 0; i < dataSize; ++i) { ...; outputData[i] = sum / count; }
RECURSIVE MovingAverageLoop(_, _, _, _, _)
MovingAverageLoop(in, dataSize, windowSize, i, acc) ==
    IF i < dataSize
    THEN LET w == MovingAverageWindow(in, windowSize, i, 0, Zero, {})
         IN  MovingAverageLoop(in, dataSize, windowSize, i + 1,
                 [out |-> [acc.out EXCEPT ![i] = FDiv(w.sum, FromInt(w.count))],
                  ret |-> acc.ret,
                  rd |-> acc.rd \cup w.rd,
                  wr |-> acc.wr \cup {i}])
    ELSE acc

calculateMovingAverage(inputPtr, outputPtr, in, out, dataSize, windowSize) ==
    IF inputPtr = NULL \/ outputPtr = NULL \/ dataSize <= 0 \/ windowSize <= 0
    THEN Untouched(out, 0)
    ELSE MovingAverageLoop(in, dataSize, windowSize, 0, Untouched(out, 0))

\* ------------------------------------------------------------- butterworthLowPassFilter
\* The literal 3.14159265358979323846 as a double.
Pi == FDiv(<<355, 0>>, <<113, 0>>)

\* double dt = 1.0 / samplingRate;
Dt(samplingRate) == FDiv(One, FromInt(samplingRate))

\* double RC = 1.0 / (2 * 3.14159265358979323846 * cutoffFrequency);
RC(cutoffFrequency) == FDiv(One, FMul(FMul(FromInt(2), Pi), FromInt(cutoffFrequency)))

\* double alpha = dt / (RC + dt);
Alpha(cutoffFrequency, samplingRate) ==
    FDiv(Dt(samplingRate), FAdd(RC(cutoffFrequency), Dt(samplingRate)))

\* LowPassStep with the two weights exchanged.
LowPassStepWeightsSwapped(alpha, x, prev) ==
    FAdd(FMul(FSub(One, alpha), x), FMul(alpha, prev))

\* outputData[i] = alpha * inputData[i] + (1 - alpha) * outputData[i - 1];
LowPassStep(alpha, x, prev) == FAdd(FMul(alpha, x), FMul(FSub(One, alpha), prev))

RECURSIVE LowPassLoop(_, _, _, _, _)
LowPassLoop(in, dataSize, alpha, i, acc) ==
    IF i < dataSize
    THEN LowPassLoop(in, dataSize, alpha, i + 1,
             [out |-> [acc.out EXCEPT ![i] = LowPassStep(alpha, in[i], acc.out[i - 1])],
              ret |-> acc.ret,
              rd |-> acc.rd \cup {i, i - 1},
              wr |-> acc.wr \cup {i}])
    ELSE acc

butterworthLowPassFilter(inputPtr, outputPtr, in, out, dataSize, cutoffFrequency, samplingRate) ==
    IF inputPtr = NULL \/ outputPtr = NULL \/ dataSize <= 0
       \/ cutoffFrequency <= 0 \/ samplingRate <= 0
    THEN Untouched(out, 0)
    ELSE LowPassLoop(in, dataSize, Alpha(cutoffFrequency, samplingRate), 1,
             [out |-> [out EXCEPT ![0] = in[0]], ret |-> 0, rd |-> {0}, wr |-> {0}])

\* ------------------------------------------------------------- detectMovement
\* double dt = 1.0 / samplingRate; double dtSquared = dt * dt;
DtSquared(samplingRate) == FMul(Dt(samplingRate), Dt(samplingRate))

\* (inputData[i+1] - 2 * inputData[i] + inputData[i-1]) / dtSquared
Acceleration(in, i, dtSquared) ==
    FDiv(FAdd(FSub(in[i + 1], FMul(FromInt(2), in[i])), in[i - 1]), dtSquared)

\* for (int i = 0; i < dataSize; ++i) outputData[i] = 0.0;
RECURSIVE ClearLoop(_, _, _)
ClearLoop(dataSize, i, acc) ==
    IF i < dataSize
    THEN ClearLoop(dataSize, i + 1,
             [acc EXCEPT !.out[i] = Zero, !.wr = @ \cup {i}])
    ELSE acc

\* for (int i = 1; i < dataSize - 1; ++i) outputData[i] = fabs(acceleration);
RECURSIVE AccelerationLoop(_, _, _, _, _)
AccelerationLoop(in, dataSize, dtSquared, i, acc) ==
    IF i < dataSize - 1
    THEN AccelerationLoop(in, dataSize, dtSquared, i + 1,
             [acc EXCEPT !.out[i] = FAbs(Acceleration(in, i, dtSquared)),
                         !.rd = @ \cup {i - 1, i, i + 1},
                         !.wr = @ \cup {i}])
    ELSE acc

\* MarkLoop marking a value equal to the threshold too (>= for >).
RECURSIVE MarkLoopNotStrict(_, _, _, _)
MarkLoopNotStrict(dataSize, threshold, i, acc) ==
    IF i < dataSize
    THEN MarkLoopNotStrict(dataSize, threshold, i + 1,
             [acc EXCEPT !.out[i] = IF ~FLess(acc.out[i], threshold) THEN One ELSE Zero,
                         !.rd = @ \cup {i},
                         !.wr = @ \cup {i}])
    ELSE acc

\* for (int i = 0; i < dataSize; ++i)
\*     outputData[i] = (outputData[i] > threshold) ? 1.0 : 0.0;
RECURSIVE MarkLoop(_, _, _, _)
MarkLoop(dataSize, threshold, i, acc) ==
    IF i < dataSize
    THEN MarkLoop(dataSize, threshold, i + 1,
             [acc EXCEPT !.out[i] = IF FLess(threshold, acc.out[i]) THEN One ELSE Zero,
                         !.rd = @ \cup {i},
                         !.wr = @ \cup {i}])
    ELSE acc

\* detectMovement rejecting a non-positive threshold as well.
detectMovementChecksThreshold(inputPtr, outputPtr, in, out, dataSize, threshold, samplingRate) ==
    IF inputPtr = NULL \/ outputPtr = NULL \/ dataSize < 3 \/ samplingRate <= 0
       \/ threshold <= 0
    THEN Untouched(out, 0)
    ELSE MarkLoop(dataSize, FromInt(threshold), 0,
             AccelerationLoop(in, dataSize, DtSquared(samplingRate), 1,
                 ClearLoop(dataSize, 0, Untouched(out, 0))))

\* detectMovement accepting two samples (dataSize < 2 for dataSize < 3).
detectMovementTwoSamples(inputPtr, outputPtr, in, out, dataSize, threshold, samplingRate) ==
    IF inputPtr = NULL \/ outputPtr = NULL \/ dataSize < 2 \/ samplingRate <= 0
    THEN Untouched(out, 0)
    ELSE MarkLoop(dataSize, FromInt(threshold), 0,
             AccelerationLoop(in, dataSize, DtSquared(samplingRate), 1,
                 ClearLoop(dataSize, 0, Untouched(out, 0))))

detectMovement(inputPtr, outputPtr, in, out, dataSize, threshold, samplingRate) ==
    IF inputPtr = NULL \/ outputPtr = NULL \/ dataSize < 3 \/ samplingRate <= 0
    THEN Untouched(out, 0)
    ELSE MarkLoop(dataSize, FromInt(threshold), 0,
             AccelerationLoop(in, dataSize, DtSquared(samplingRate), 1,
                 ClearLoop(dataSize, 0, Untouched(out, 0))))

\* ------------------------------------------------------------- applyZupt
\* The scan before index 0: int continuousCount = 0; i = 0.
ZuptStart(velocity) ==
    [i |-> 0, continuousCount |-> 0, running |-> TRUE,
     out |-> velocity, ret |-> 0, rd |-> {}, wr |-> {}]

\* No applyZupt loop has been entered.
NoScan ==
    [i |-> 0, continuousCount |-> 0, running |-> FALSE,
     out |-> [k \in Indices |-> Zero], ret |-> 0, rd |-> {}, wr |-> {}]

\* ZuptStep without the reset of the counter in the else branch.
ZuptStepNoReset(s, accel, dataSize, threshold, continuousCountThreshold) ==
    IF ~(s.i < dataSize)
    THEN [s EXCEPT !.running = FALSE, !.ret = 0]
    ELSE IF FLess(FAbs(accel[s.i]), threshold)
    THEN LET t == [s EXCEPT !.continuousCount = @ + 1,
                            !.out[s.i] = Zero,
                            !.rd = @ \cup {s.i},
                            !.wr = @ \cup {s.i}]
         IN  IF t.continuousCount >= continuousCountThreshold
             THEN [t EXCEPT !.running = FALSE, !.ret = 1]
             ELSE [t EXCEPT !.i = @ + 1]
    ELSE [s EXCEPT !.rd = @ \cup {s.i}, !.i = @ + 1]

\* ZuptStep with the run complete only past the threshold (> for >=).
ZuptStepStrictCount(s, accel, dataSize, threshold, continuousCountThreshold) ==
    IF ~(s.i < dataSize)
    THEN [s EXCEPT !.running = FALSE, !.ret = 0]
    ELSE IF FLess(FAbs(accel[s.i]), threshold)
    THEN LET t == [s EXCEPT !.continuousCount = @ + 1,
                            !.out[s.i] = Zero,
                            !.rd = @ \cup {s.i},
                            !.wr = @ \cup {s.i}]
         IN  IF t.continuousCount > continuousCountThreshold
             THEN [t EXCEPT !.running = FALSE, !.ret = 1]
             ELSE [t EXCEPT !.i = @ + 1]
    ELSE [s EXCEPT !.continuousCount = 0, !.rd = @ \cup {s.i}, !.i = @ + 1]

\* ZuptStep with the scan going on after the run is complete.
ZuptStepNoEarlyExit(s, accel, dataSize, threshold, continuousCountThreshold) ==
    IF ~(s.i < dataSize)
    THEN [s EXCEPT !.running = FALSE]
    ELSE IF FLess(FAbs(accel[s.i]), threshold)
    THEN LET t == [s EXCEPT !.continuousCount = @ + 1,
                            !.out[s.i] = Zero,
                            !.rd = @ \cup {s.i},
                            !.wr = @ \cup {s.i}]
         IN  IF t.continuousCount >= continuousCountThreshold
             THEN [t EXCEPT !.i = @ + 1, !.ret = 1]
             ELSE [t EXCEPT !.i = @ + 1]
    ELSE [s EXCEPT !.continuousCount = 0, !.rd = @ \cup {s.i}, !.i = @ + 1]

\* One evaluation of the loop condition and, when it holds, of the body.
ZuptStep(s, accel, dataSize, threshold, continuousCountThreshold) ==
    IF ~(s.i < dataSize)
    THEN [s EXCEPT !.running = FALSE, !.ret = 0]
    ELSE IF FLess(FAbs(accel[s.i]), threshold)
    THEN LET t == [s EXCEPT !.continuousCount = @ + 1,
                            !.out[s.i] = Zero,
                            !.rd = @ \cup {s.i},
                            !.wr = @ \cup {s.i}]
         IN  IF t.continuousCount >= continuousCountThreshold
             THEN [t EXCEPT !.running = FALSE, !.ret = 1]
             ELSE [t EXCEPT !.i = @ + 1]
    ELSE [s EXCEPT !.continuousCount = 0, !.rd = @ \cup {s.i}, !.i = @ + 1]

RECURSIVE ZuptScan(_, _, _, _, _)
ZuptScan(s, accel, dataSize, threshold, continuousCountThreshold) ==
    IF s.running
    THEN ZuptScan(ZuptStep(s, accel, dataSize, threshold, continuousCountThreshold),
                  accel, dataSize, threshold, continuousCountThreshold)
    ELSE s

applyZupt(velocityPtr, accelPtr, velocity, accel, dataSize, threshold, continuousCountThreshold) ==
    IF velocityPtr = NULL \/ accelPtr = NULL \/ dataSize <= 0
    THEN Untouched(velocity, -1)
    ELSE LET s == ZuptScan(ZuptStart(velocity), accel, dataSize,
                           FromInt(threshold), continuousCountThreshold)
         IN  [out |-> s.out, ret |-> s.ret, rd |-> s.rd, wr |-> s.wr]

\* ------------------------------------------------------------- the calls
Pointers == {NULL, Valid}

Init ==
    /\ pc = "ready"
    /\ call = NoCall
    /\ callerInput \in InputBuffers
    /\ callerOutput \in StaleBuffers
    /\ inputData = callerInput
    /\ outputData = callerOutput
    /\ ret = 0
    /\ rd = {}
    /\ wr = {}
    /\ scan = NoScan

\* The call c returns r: the output buffer is what the function left.
Return(c, r) ==
    /\ pc' = "returned"
    /\ call' = c
    /\ outputData' = r.out
    /\ ret' = r.ret
    /\ rd' = r.rd
    /\ wr' = r.wr
    /\ UNCHANGED <<callerInput, callerOutput, inputData, scan>>

CallMovingAverage ==
    /\ pc = "ready"
    /\ \E ip \in Pointers, op \in Pointers, n \in DataSizes, w \in RunLengths :
          Return([NoCall EXCEPT !.fn = "calculateMovingAverage", !.inputPtr = ip,
                                !.outputPtr = op, !.dataSize = n, !.windowSize = w],
                 calculateMovingAverage(ip, op, inputData, outputData, n, w))

CallLowPassFilter ==
    /\ pc = "ready"
    /\ \E ip \in Pointers, op \in Pointers, n \in DataSizes,
          fc \in CutoffFrequencies, sr \in SamplingRates :
          Return([NoCall EXCEPT !.fn = "butterworthLowPassFilter", !.inputPtr = ip,
                                !.outputPtr = op, !.dataSize = n,
                                !.cutoffFrequency = fc, !.samplingRate = sr],
                 butterworthLowPassFilter(ip, op, inputData, outputData, n, fc, sr))

CallDetectMovement ==
    /\ pc = "ready"
    /\ \E ip \in Pointers, op \in Pointers, n \in DataSizes,
          th \in Thresholds, sr \in MovementRates :
          Return([NoCall EXCEPT !.fn = "detectMovement", !.inputPtr = ip,
                                !.outputPtr = op, !.dataSize = n,
                                !.threshold = th, !.samplingRate = sr],
                 detectMovement(ip, op, inputData, outputData, n, th, sr))

\* velocityData is the written buffer, accelData the const one.
CallApplyZupt ==
    /\ pc = "ready"
    /\ \E vp \in Pointers, ap \in Pointers, n \in DataSizes,
          th \in Thresholds, k \in RunLengths :
          Return([NoCall EXCEPT !.fn = "applyZupt", !.inputPtr = ap,
                                !.outputPtr = vp, !.dataSize = n,
                                !.threshold = th, !.continuousCountThreshold = k],
                 applyZupt(vp, ap, outputData, inputData, n, th, k))

Next ==
    \/ CallMovingAverage
    \/ CallLowPassFilter
    \/ CallDetectMovement
    \/ CallApplyZupt

Spec == Init /\ [][Next]_vars

\* ------------------------------------------------------------- applyZupt, step by step
\* applyZupt is called: it returns -1, or enters the loop with
\* continuousCount = 0 and i = 0.
ZuptEnter ==
    /\ pc = "ready"
    /\ \E vp \in Pointers, ap \in Pointers, n \in DataSizes,
          th \in Thresholds, k \in RunLengths :
          LET c == [NoCall EXCEPT !.fn = "applyZupt", !.inputPtr = ap,
                                  !.outputPtr = vp, !.dataSize = n,
                                  !.threshold = th, !.continuousCountThreshold = k]
          IN  IF vp = NULL \/ ap = NULL \/ n <= 0
              THEN Return(c, Untouched(outputData, -1))
              ELSE /\ pc' = "scanning"
                   /\ call' = c
                   /\ scan' = ZuptStart(outputData)
                   /\ UNCHANGED <<callerInput, callerOutput, inputData,
                                  outputData, ret, rd, wr>>

\* One evaluation of the loop condition and, when it holds, of the body:
\* velocityData is written in place, and the function returns when the run
\* is complete or the loop ends.
ZuptIterate ==
    /\ pc = "scanning"
    /\ LET s == ZuptStep(scan, inputData, call.dataSize, FromInt(call.threshold),
                         call.continuousCountThreshold)
       IN  /\ scan' = s
           /\ outputData' = s.out
           /\ rd' = s.rd
           /\ wr' = s.wr
           /\ pc' = IF s.running THEN "scanning" ELSE "returned"
           /\ ret' = IF s.running THEN ret ELSE s.ret
    /\ UNCHANGED <<call, callerInput, callerOutput, inputData>>

ScanNext ==
    \/ ZuptEnter
    \/ ZuptIterate

ScanSpec == Init /\ [][ScanNext]_vars

\* ------------------------------------------------------------- properties
Returned(f) == pc = "returned" /\ call.fn = f

BuffersGiven == call.inputPtr # NULL /\ call.outputPtr # NULL

\* |accelData[i]| < threshold, on the buffer the caller provided.
Below(i) == FLess(FAbs(callerInput[i]), FromInt(call.threshold))

\* A run of k consecutive below-threshold samples ends at index e.
RunEndsAt(e, k) == e - k + 1 >= 0 /\ \A j \in (e - k + 1) .. e : Below(j)

HasRun == \E e \in 0 .. (call.dataSize - 1) : RunEndsAt(e, call.continuousCountThreshold)

ZuptValid == BuffersGiven /\ call.dataSize >= 1

\* C1: applyZupt returns -1 exactly for a NULL buffer or dataSize <= 0;
\* otherwise, for continuousCountThreshold >= 1, it returns 1 exactly when
\* accelData[0..dataSize) holds continuousCountThreshold consecutive samples
\* with |accelData[i]| < threshold, and 0 exactly when it holds no such run.
C1_ReturnClassifiesCall ==
    Returned("applyZupt") =>
        /\ ret \in {-1, 0, 1}
        /\ (ret = -1) <=> ~ZuptValid
        /\ (ZuptValid /\ call.continuousCountThreshold >= 1) =>
              /\ (ret = 1) <=> HasRun
              /\ (ret = 0) <=> ~HasRun

\* A run that completes after the counter was reset: the first sample is at
\* or above the threshold, the run is two samples or more, the call returns 1.
C1_Witness ==
    /\ Returned("applyZupt")
    /\ ZuptValid
    /\ call.continuousCountThreshold >= 2
    /\ ~Below(0)
    /\ ret = 1

\* The index at which the scan stops.
StopIndex ==
    IF HasRun
    THEN CHOOSE e \in 0 .. (call.dataSize - 1) :
            /\ RunEndsAt(e, call.continuousCountThreshold)
            /\ \A f \in 0 .. (e - 1) : ~RunEndsAt(f, call.continuousCountThreshold)
    ELSE call.dataSize - 1

Rejected ==
    \/ /\ Returned("calculateMovingAverage")
       /\ (~BuffersGiven \/ call.dataSize <= 0 \/ call.windowSize <= 0)
    \/ /\ Returned("butterworthLowPassFilter")
       /\ (~BuffersGiven \/ call.dataSize <= 0 \/ call.cutoffFrequency <= 0
           \/ call.samplingRate <= 0)
    \/ /\ Returned("detectMovement")
       /\ (~BuffersGiven \/ call.dataSize < 3 \/ call.samplingRate <= 0)

\* C3: calculateMovingAverage, butterworthLowPassFilter and detectMovement
\* called with a NULL buffer, a dataSize too small or a non-positive
\* windowSize, cutoffFrequency or samplingRate write nothing: both buffers
\* are as the caller provided them.
C3_RejectedCallIsNoOp ==
    Rejected => /\ wr = {}
                /\ outputData = callerOutput
                /\ inputData = callerInput

\* detectMovement on two samples, all else valid, over a buffer of stale
\* values.
C3_Witness ==
    /\ Returned("detectMovement")
    /\ BuffersGiven
    /\ call.dataSize = 2
    /\ call.samplingRate > 0
    /\ call.threshold > 0
    /\ callerOutput[0] # Zero
    /\ outputData = callerOutput

\* C4 as claimed: detectMovement with threshold <= 0, and applyZupt with
\* threshold <= 0 or continuousCountThreshold <= 0, write nothing.
C4_NonPositiveThresholdIsNoOp ==
    (\/ Returned("detectMovement") /\ call.threshold <= 0
     \/ Returned("applyZupt")
        /\ (call.threshold <= 0 \/ call.continuousCountThreshold <= 0)) =>
        /\ wr = {}
        /\ outputData = callerOutput

MovementValid == BuffersGiven /\ call.dataSize >= 3 /\ call.samplingRate > 0

\* The first index below the threshold, when there is one.
FirstBelow ==
    CHOOSE i \in 0 .. (call.dataSize - 1) :
        Below(i) /\ \A j \in 0 .. (i - 1) : ~Below(j)

\* C4, amended: neither function checks the threshold or the run length.
\* applyZupt with threshold <= 0 writes nothing, since no sample is below
\* the threshold, and returns 0 when its buffers and dataSize are valid.
\* detectMovement with threshold <= 0 and otherwise valid arguments writes
\* every element of output[0..dataSize), each 1.0 when threshold < 0.
\* applyZupt with threshold > 0 and continuousCountThreshold <= 0 zeroes
\* velocityData at the first below-threshold sample and returns 1 there,
\* and writes nothing and returns 0 when no sample is below the threshold.
C4_NonPositiveThresholdNotChecked ==
    /\ (Returned("applyZupt") /\ call.threshold <= 0) =>
          /\ wr = {}
          /\ outputData = callerOutput
          /\ ZuptValid => ret = 0
    /\ (Returned("detectMovement") /\ MovementValid /\ call.threshold <= 0) =>
          /\ wr = 0 .. (call.dataSize - 1)
          /\ \A i \in 0 .. (call.dataSize - 1) : outputData[i] \in {Zero, One}
          /\ call.threshold < 0 =>
                \A i \in 0 .. (call.dataSize - 1) : outputData[i] = One
    /\ (Returned("applyZupt") /\ ZuptValid /\ call.threshold > 0
        /\ call.continuousCountThreshold <= 0) =>
          IF \E i \in 0 .. (call.dataSize - 1) : Below(i)
          THEN /\ ret = 1
               /\ wr = {FirstBelow}
               /\ outputData = [callerOutput EXCEPT ![FirstBelow] = Zero]
          ELSE /\ ret = 0
               /\ wr = {}
               /\ outputData = callerOutput

\* detectMovement with a negative threshold over stale values: the whole
\* output is overwritten.
C4_Witness ==
    /\ Returned("detectMovement")
    /\ MovementValid
    /\ call.threshold < 0
    /\ call.dataSize = BufLen
    /\ \A i \in Indices : callerOutput[i] # One /\ outputData[i] = One

\* C5 as claimed: a call of applyZupt that returns 0 or -1 leaves
\* velocityData element for element as it was.
C5_NoDetectionLeavesVelocity ==
    (Returned("applyZupt") /\ ret \in {0, -1}) => outputData = callerOutput

\* in[hi] + in[hi-1] + ... + in[lo] as a double, summed from the newest
\* sample back.
RECURSIVE WindowSum(_, _, _)
WindowSum(in, lo, hi) ==
    IF lo > hi THEN Zero ELSE FAdd(WindowSum(in, lo + 1, hi), in[lo])

\* The arithmetic mean of in[lo..hi], as a double.
Mean(in, lo, hi) == FDiv(WindowSum(in, lo, hi), FromInt(hi - lo + 1))

AverageValid ==
    BuffersGiven /\ call.dataSize >= 1 /\ call.windowSize >= 1

\* C6: after a valid calculateMovingAverage call every output[i], i <
\* dataSize, is written and is the mean of the min(i+1, windowSize) samples
\* input[max(0, i-windowSize+1) .. i]; output[0] = input[0]; the input
\* buffer is unchanged.
C6_MovingAverageIsTrailingMean ==
    (Returned("calculateMovingAverage") /\ AverageValid) =>
        /\ \A i \in 0 .. (call.dataSize - 1) :
              /\ i \in wr
              /\ outputData[i] =
                    Mean(callerInput, Max(0, i - call.windowSize + 1), i)
        /\ outputData[0] = callerInput[0]
        /\ inputData = callerInput

\* A window shorter than the buffer over samples that differ: the last
\* output is not the mean of the whole buffer, nor the last sample.
C6_Witness ==
    /\ Returned("calculateMovingAverage")
    /\ AverageValid
    /\ call.dataSize = BufLen
    /\ call.windowSize = 2
    /\ outputData[BufLen - 1] # Mean(callerInput, 0, BufLen - 1)
    /\ outputData[BufLen - 1] # callerInput[BufLen - 1]
    /\ outputData[BufLen - 1] # callerOutput[BufLen - 1]

\* C7 as claimed: after a detectMovement call that passes the validation,
\* output[0] and output[dataSize-1] are 0.0 whatever the threshold.
C7_BoundaryOutputsAreZero ==
    (Returned("detectMovement") /\ MovementValid) =>
        /\ outputData[0] = Zero
        /\ outputData[call.dataSize - 1] = Zero

\* C8: with windowSize > dataSize >= 1 calculateMovingAverage reads and
\* writes only indices 0..dataSize-1 and output[i] is the mean of
\* input[0..i]; with continuousCountThreshold > dataSize >= 1 applyZupt
\* reads and writes only indices 0..dataSize-1, scans the whole buffer and
\* returns 0.
C8_OversizedStaysInRange ==
    /\ (Returned("calculateMovingAverage") /\ AverageValid
        /\ call.windowSize > call.dataSize) =>
          /\ rd \cup wr \subseteq 0 .. (call.dataSize - 1)
          /\ \A i \in 0 .. (call.dataSize - 1) :
                outputData[i] = Mean(callerInput, 0, i)
    /\ (Returned("applyZupt") /\ ZuptValid
        /\ call.continuousCountThreshold > call.dataSize) =>
          /\ rd \cup wr \subseteq 0 .. (call.dataSize - 1)
          /\ rd = 0 .. (call.dataSize - 1)
          /\ ret = 0

\* A window one longer than the full buffer, over samples that are not all
\* equal.
C8_Witness ==
    /\ Returned("calculateMovingAverage")
    /\ AverageValid
    /\ call.dataSize = BufLen
    /\ call.windowSize = BufLen + 1
    /\ callerInput[0] # callerInput[BufLen - 1]
    /\ rd = Indices

\* |input[i+1] - 2*input[i] + input[i-1]| / dt^2, dt = 1/samplingRate.
SecondDifference(i) ==
    FDiv(FAbs(FAdd(FSub(callerInput[i + 1], FMul(FromInt(2), callerInput[i])),
                   callerInput[i - 1])),
         FMul(FDiv(One, FromInt(call.samplingRate)),
              FDiv(One, FromInt(call.samplingRate))))

\* C9: after a valid detectMovement call with threshold > 0 every output
\* element is written and is 0.0 or 1.0, and an interior output[i] is 1.0
\* exactly when |input[i+1] - 2*input[i] + input[i-1]| / dt^2 > threshold.
C9_MovementIsThresholdedSecondDifference ==
    (Returned("detectMovement") /\ MovementValid /\ call.threshold > 0) =>
        /\ \A i \in 0 .. (call.dataSize - 1) :
              i \in wr /\ outputData[i] \in {Zero, One}
        /\ \A i \in 1 .. (call.dataSize - 2) :
              (outputData[i] = One) <=>
                  FLess(FromInt(call.threshold), SecondDifference(i))

\* An interior second difference equal to the threshold is not movement,
\* and the output held stale values before the call.
C9_Witness ==
    /\ Returned("detectMovement")
    /\ MovementValid
    /\ call.threshold > 0
    /\ SecondDifference(1) = FromInt(call.threshold)
    /\ outputData[1] = Zero
    /\ callerOutput[1] # Zero

LowPassValid ==
    /\ BuffersGiven
    /\ call.dataSize >= 1
    /\ call.cutoffFrequency > 0
    /\ call.samplingRate > 0

\* alpha of the call.
CallAlpha == Alpha(call.cutoffFrequency, call.samplingRate)

\* input[i] is one constant for every i >= 1 of the call.
ConstantAfterFirst ==
    /\ call.dataSize >= 2
    /\ \A i \in 1 .. (call.dataSize - 1) : callerInput[i] = callerInput[1]

\* The real number output[i] - c, c the constant input, and its magnitude.
Offset(i) == ExactAdd(outputData[i], Neg(callerInput[1]))

Distance(i) == FAbs(Offset(i))

\* a <= b, exactly.
Leq(a, b) == ~FLess(b, a)

\* alpha * input[i] + (1 - alpha) * output[i-1], in the code's arithmetic.
Recurrence(i) ==
    FAdd(FMul(CallAlpha, callerInput[i]),
         FMul(FSub(One, CallAlpha), outputData[i - 1]))

\* C10 as claimed: for a valid butterworthLowPassFilter call 0 < alpha < 1,
\* output[0] = input[0], output[i] = alpha*input[i] + (1-alpha)*output[i-1],
\* and with input[i] = c for all i >= 1 the distance |output[i] - c| never
\* grows and output[i] is never on the other side of c than output[0].
C10_MonotoneStepResponse ==
    (Returned("butterworthLowPassFilter") /\ LowPassValid) =>
        /\ FLess(Zero, CallAlpha)
        /\ FLess(CallAlpha, One)
        /\ outputData[0] = callerInput[0]
        /\ \A i \in 1 .. (call.dataSize - 1) : outputData[i] = Recurrence(i)
        /\ ConstantAfterFirst =>
              \A i \in 1 .. (call.dataSize - 1) :
                  /\ Leq(Distance(i), Distance(i - 1))
                  /\ Sgn(Offset(i)[1]) * Sgn(Offset(0)[1]) >= 0

\* Four units of rounding error, 4 * 2^-SignificandBits, of the larger of
\* |c| and |output[i]|.
Slack(i) ==
    LET a == FAbs(callerInput[1])
        b == FAbs(outputData[i])
        m == IF FLess(a, b) THEN b ELSE a
    IN  IF m[1] = 0 THEN Zero ELSE <<m[1], m[2] + 2 - SignificandBits>>

\* C10, amended: in the code's floating-point arithmetic 0 < alpha <= 1,
\* output[0] = input[0], output[i] = alpha*input[i] + (1-alpha)*output[i-1]
\* with every operation rounded, and with input[i] = c for all i >= 1 the
\* outputs approach c monotonically up to rounding error only:
\* |output[i] - c| <= |output[i-1] - c| + 4*eps*max(|c|, |output[i-1]|), and
\* an output on the other side of c than its predecessor, or following an
\* output equal to c, is within 4*eps*max(|c|, |output[i-1]|) of c.
C10_StepResponseUpToRounding ==
    (Returned("butterworthLowPassFilter") /\ LowPassValid) =>
        /\ FLess(Zero, CallAlpha)
        /\ Leq(CallAlpha, One)
        /\ outputData[0] = callerInput[0]
        /\ \A i \in 1 .. (call.dataSize - 1) : outputData[i] = Recurrence(i)
        /\ ConstantAfterFirst =>
              \A i \in 1 .. (call.dataSize - 1) :
                  /\ Leq(Distance(i), ExactAdd(Distance(i - 1), Slack(i - 1)))
                  /\ Sgn(Offset(i)[1]) * Sgn(Offset(i - 1)[1]) <= 0 =>
                        Leq(Distance(i), Slack(i - 1))

\* A constant input that the filter does not hold: output[0] = c and
\* output[1] is off c by a rounding error.
C10_Witness ==
    /\ Returned("butterworthLowPassFilter")
    /\ LowPassValid
    /\ ConstantAfterFirst
    /\ callerInput[0] = callerInput[1]
    /\ outputData[1] # callerInput[1]
    /\ FLess(CallAlpha, One)

\* ------------------------------------------------------------- applyZupt's run counter
\* The length of the maximal run of consecutive below-threshold samples that
\* ends at index e: 0 when sample e is at or above the threshold, and for
\* e = -1, before the first sample.
RECURSIVE RunLengthAt(_)
RunLengthAt(e) == IF e < 0 \/ ~Below(e) THEN 0 ELSE 1 + RunLengthAt(e - 1)

\* The loop is entered: the counter starts at 0, before index 0.
CounterStartsAtZero ==
    (pc = "ready" /\ pc' = "scanning") =>
        /\ scan'.continuousCount = 0
        /\ scan'.i = 0

\* The loop processes index scan.i, or ends at scan.i = dataSize.
CounterStep ==
    (pc = "scanning" /\ call.continuousCountThreshold >= 1) =>
        IF scan.i < call.dataSize
        THEN /\ scan'.continuousCount = RunLengthAt(scan.i)
             /\ ~Below(scan.i) => scan'.continuousCount = 0
             /\ Below(scan.i) => scan'.continuousCount = scan.continuousCount + 1
             /\ pc' = "scanning" =>
                   /\ scan'.i = scan.i + 1
                   /\ 0 <= scan'.continuousCount
                   /\ scan'.continuousCount < call.continuousCountThreshold
             /\ pc' = "returned" =>
                   /\ scan'.i = scan.i
                   /\ scan'.continuousCount = call.continuousCountThreshold
        ELSE /\ scan'.continuousCount = scan.continuousCount
             /\ pc' = "returned"

\* C11: in applyZupt's scan with continuousCountThreshold >= 1 the counter
\* starts at 0; after index i has been processed it equals the length of
\* the maximal run of consecutive samples with |accelData[j]| < threshold
\* ending at i (0 when sample i is at or above the threshold); it is set to 0
\* when an at-or-above-threshold sample is processed and grows by one on
\* every other sample; and whenever the scan proceeds to the next index,
\* 0 <= counter < continuousCountThreshold.
C11_RunCounterInvariant == [][CounterStartsAtZero /\ CounterStep]_vars

\* The scan has counted a below-threshold sample, was reset by a sample at or
\* above the threshold, has counted again and goes on: the counter is not 0
\* and the run needed is longer than the one counted.
C11_Witness ==
    /\ pc = "scanning"
    /\ call.continuousCountThreshold >= 2
    /\ scan.continuousCount >= 1
    /\ \E j \in 0 .. (scan.i - 2) : Below(j) /\ ~Below(j + 1)

====
